---- MODULE Spec2Model ----
(***************************************************************************)
(* Model of the Prometheus text-exposition parser of src/src/text_parse.rs *)
(* (struct TextParser and its state functions).                            *)
(*                                                                         *)
(* A byte is a one-character string; a token (Vec<u8>, String) is a        *)
(* sequence of bytes.  Inputs are ASCII, so every from_utf8 succeeds.      *)
(* An Option<T> is a sequence of length at most one (<<>> is None).        *)
(* An Rc<RefCell<MetricFamily>> is an index into the heap mfs.             *)
(***************************************************************************)
EXTENDS Integers, Sequences, FiniteSets, TLC

VARIABLES
    doc,            \* the document behind the reader, as a sequence of lines
    input,          \* the bytes the reader delivers (the rendered document)
    cur_byte, cur_labels, mf_by_name, cur_mf, cur_token, cur_bucket,
    cur_quantile, parser_status, line_count, reading_bytes, cur_metric,
    error, next_fn, \* the fields of TextParser
    mfs,            \* heap of MetricFamily records (cur_mf and mf_by_name point into it)
    pc,             \* position of the caller: "new", "loop", "done", "panic"
    last_fn,        \* the state function the driver loop called last
    result          \* return value of text_to_metric_families

vars == <<doc, input, cur_byte, cur_labels, mf_by_name, cur_mf, cur_token,
          cur_bucket, cur_quantile, parser_status, line_count, reading_bytes,
          cur_metric, error, next_fn, mfs, pc, last_fn, result>>

-----------------------------------------------------------------------------
(* Bytes *)

LF == "\n"
BS == "\\"
DQ == "\""
SP == " "
TAB == "\t"
NUL == "NUL"

Lower == {"a","b","c","d","e","f","g","h","i","j","k","l","m",
          "n","o","p","q","r","s","t","u","v","w","x","y","z"}
Upper == {"A","B","C","D","E","F","G","H","I","J","K","L","M",
          "N","O","P","Q","R","S","T","U","V","W","X","Y","Z"}
Digit == {"0","1","2","3","4","5","6","7","8","9"}

is_blank_or_tab(b) == b = SP \/ b = TAB

is_valid_label_name_start(b) == b \in Lower \/ b \in Upper \/ b = "_"

is_valid_label_name_continuation(b) == is_valid_label_name_start(b) \/ b \in Digit

is_valid_metric_name_start(b) == is_valid_label_name_start(b) \/ b = ":"

-----------------------------------------------------------------------------
(* Tokens and names *)

tok_HELP == <<"H","E","L","P">>
tok_TYPE == <<"T","Y","P","E">>
tok_summary == <<"s","u","m","m","a","r","y">>
tok_counter == <<"c","o","u","n","t","e","r">>
tok_gauge == <<"g","a","u","g","e">>
tok_histogram == <<"h","i","s","t","o","g","r","a","m">>
tok_le == <<"l","e">>
tok_quantile == <<"q","u","a","n","t","i","l","e">>
tok_reserved == <<"_","_","n","a","m","e","_","_">>
suf_count == <<"_","c","o","u","n","t">>
suf_sum == <<"_","s","u","m">>
suf_bucket == <<"_","b","u","c","k","e","t">>

ends_with(name, suf) ==
    /\ Len(name) >= Len(suf)
    /\ SubSeq(name, Len(name) - Len(suf) + 1, Len(name)) = suf

is_count(name) == ends_with(name, suf_count)

is_sum(name) == ends_with(name, suf_sum)

is_bucket(name) == ends_with(name, suf_bucket)

summary_metric_name(name) ==
    IF is_count(name) THEN SubSeq(name, 1, Len(name) - 6)
    ELSE IF is_sum(name) THEN SubSeq(name, 1, Len(name) - 4)
    ELSE IF is_bucket(name) THEN SubSeq(name, 1, Len(name) - 7)
    ELSE name

histogram_metric_name(name) ==
    IF is_count(name) THEN SubSeq(name, 1, Len(name) - 6)
    ELSE IF is_sum(name) THEN SubSeq(name, 1, Len(name) - 4)
    ELSE IF is_bucket(name) THEN SubSeq(name, 1, Len(name) - 7)
    ELSE name

-----------------------------------------------------------------------------
(* f64.  A value is [cls, neg, int, frac]: cls is "fin", "inf" or "nan";    *)
(* a finite value is its sign, its integer part and its fractional digits  *)
(* without trailing zeros.  parse_float is str::parse::<f64> on the        *)
(* decimal notation without exponent, which is all the inputs here use.    *)

NaN == [cls |-> "nan", neg |-> FALSE, int |-> 0, frac |-> <<>>]
Inf(n) == [cls |-> "inf", neg |-> n, int |-> 0, frac |-> <<>>]
Zero == [cls |-> "fin", neg |-> FALSE, int |-> 0, frac |-> <<>>]

DigitVal(d) ==
    CASE d = "0" -> 0 [] d = "1" -> 1 [] d = "2" -> 2 [] d = "3" -> 3
      [] d = "4" -> 4 [] d = "5" -> 5 [] d = "6" -> 6 [] d = "7" -> 7
      [] d = "8" -> 8 [] d = "9" -> 9

RECURSIVE DigitsVal(_)
DigitsVal(ds) ==
    IF ds = <<>> THEN 0
    ELSE 10 * DigitsVal(SubSeq(ds, 1, Len(ds) - 1)) + DigitVal(ds[Len(ds)])

RECURSIVE StripZeros(_)
StripZeros(ds) ==
    IF ds # <<>> /\ ds[Len(ds)] = "0" THEN StripZeros(SubSeq(ds, 1, Len(ds) - 1))
    ELSE ds

AllDigits(ds) == \A i \in 1..Len(ds) : ds[i] \in Digit

LowerCase(b) ==
    CASE b = "I" -> "i" [] b = "N" -> "n" [] b = "F" -> "f" [] b = "A" -> "a"
      [] b = "T" -> "t" [] b = "Y" -> "y" [] OTHER -> b

\* the unsigned part of a float literal: <<>> when it is not one, <<v>> otherwise
ParseUnsigned(t, n) ==
    LET low == [i \in 1..Len(t) |-> LowerCase(t[i])]
        dots == {i \in 1..Len(t) : t[i] = "."}
    IN  IF low = <<"i","n","f">> \/ low = <<"i","n","f","i","n","i","t","y">>
        THEN <<Inf(n)>>
        ELSE IF low = <<"n","a","n">> THEN <<NaN>>
        ELSE IF dots = {} THEN
            IF t # <<>> /\ AllDigits(t)
            THEN <<[cls |-> "fin", neg |-> n, int |-> DigitsVal(t), frac |-> <<>>]>>
            ELSE <<>>
        ELSE IF Cardinality(dots) = 1 THEN
            LET d == CHOOSE i \in dots : TRUE
                ip == SubSeq(t, 1, d - 1)
                fp == SubSeq(t, d + 1, Len(t))
            IN  IF Len(t) > 1 /\ AllDigits(ip) /\ AllDigits(fp)
                THEN <<[cls |-> "fin", neg |-> n, int |-> DigitsVal(ip),
                        frac |-> StripZeros(fp)]>>
                ELSE <<>>
        ELSE <<>>

\* Result<f64, ParseFloatError>: <<v>> is Ok(v), <<>> is Err
parse_float(t) ==
    IF t = <<>> THEN <<>>
    ELSE IF t[1] = "+" THEN ParseUnsigned(Tail(t), FALSE)
    ELSE IF t[1] = "-" THEN ParseUnsigned(Tail(t), TRUE)
    ELSE ParseUnsigned(t, FALSE)

\* a != b on f64: NaN differs from everything, itself included
f64_ne(a, b) == a.cls = "nan" \/ b.cls = "nan" \/ a # b

\* `f as u64`: truncates, saturates; NaN and negatives give 0.
\* u64::MAX is outside TLC's integers and is written -1.
as_u64(f) ==
    IF f.cls = "nan" \/ f.neg THEN 0
    ELSE IF f.cls = "inf" THEN -1
    ELSE f.int

-----------------------------------------------------------------------------
(* Error slot, state functions, protobuf records *)

NoError == "none"
IoEof == "io: failed to fill whole buffer"
ErrInvalidMetricName == "invalid metric name"
ErrInvalidLabelName == "invalid label name for metric"
ErrReserved == "label name `__name__' is reserved"
ErrExpectEq == "expect '=' after label name"
ErrExpectQuote == "expect '\"' after start of label value"
ErrInvalidEscape == "invalid escape sequence"
ErrUnescapedNewline == "label value contains unescaped new-line"
ErrEndOfLabelValue == "unexpected end of label value"
ErrSecondHelp == "second HELP line for metric name"
ErrQuantileFloat == "expect float as value for quantile lable"
ErrLeFloat == "expect float as value for le lable"
ErrParseFloat == "invalid float literal"
ErrKeyword == "code error: unexpected keyword"

ParseErrors == {ErrInvalidMetricName, ErrInvalidLabelName, ErrReserved,
                ErrExpectEq, ErrExpectQuote, ErrInvalidEscape,
                ErrUnescapedNewline, ErrEndOfLabelValue, ErrSecondHelp,
                ErrQuantileFloat, ErrLeFloat, ErrParseFloat, ErrKeyword}

None == "None"

\* MetricFamily::new(); the optional field `type` is unset
NewMetricFamily == [name |-> <<>>, help |-> <<>>, field_type |-> None, metric |-> <<>>]

\* MetricFamily::get_field_type(): an unset optional enum reads as its
\* default, the first value of MetricType
get_field_type(mf) == IF mf.field_type = None THEN "COUNTER" ELSE mf.field_type

NewSummary == [sample_count |-> 0, sample_sum |-> Zero, quantile |-> <<>>]
NewHistogram == [sample_count |-> 0, sample_sum |-> Zero, bucket |-> <<>>]

\* Metric::new()
NewMetric == [label |-> <<>>, counter |-> <<>>, gauge |-> <<>>,
              summary |-> <<>>, histogram |-> <<>>]

\* Metric::mut_summary() / mut_histogram(): the field, created when unset
mut_summary(m) == IF m.summary = <<>> THEN NewSummary ELSE m.summary[1]
mut_histogram(m) == IF m.histogram = <<>> THEN NewHistogram ELSE m.histogram[1]

EmptyMap == [n \in {} |-> 0]
MapInsert(m, k, v) == [n \in DOMAIN m \cup {k} |-> IF n = k THEN v ELSE m[n]]

-----------------------------------------------------------------------------
(* The parser as one record, for the state functions to transform *)

Self == [cur_byte |-> cur_byte, cur_labels |-> cur_labels,
         mf_by_name |-> mf_by_name, cur_mf |-> cur_mf, cur_token |-> cur_token,
         cur_bucket |-> cur_bucket, cur_quantile |-> cur_quantile,
         parser_status |-> parser_status, line_count |-> line_count,
         reading_bytes |-> reading_bytes, cur_metric |-> cur_metric,
         error |-> error, next_fn |-> next_fn, mfs |-> mfs, panic |-> FALSE]

got_error(s) == s.error # NoError

\* the family cur_mf points to
CurMf(s) == s.mfs[s.cur_mf]

SetNext(s, f) == [s EXCEPT !.next_fn = f]
SetError(s, e) == [s EXCEPT !.error = e]
Panic(s) == [s EXCEPT !.panic = TRUE]

-----------------------------------------------------------------------------
(* Byte reader and token scanners *)

read_byte(s) ==
    IF s.reading_bytes < Len(input)
    THEN [s EXCEPT !.reading_bytes = @ + 1,
                   !.error = NoError,
                   !.cur_byte = input[s.reading_bytes + 1]]
    ELSE [s EXCEPT !.error = IoEof, !.next_fn = None]

RECURSIVE skip_blank_tab(_)
skip_blank_tab(s) ==
    LET r == read_byte(s)
    IN  IF got_error(r) THEN r
        ELSE IF ~is_blank_or_tab(r.cur_byte) THEN r
        ELSE skip_blank_tab(r)

skip_blank_tab_if_current_blank_tab(s) ==
    IF is_blank_or_tab(s.cur_byte) THEN skip_blank_tab(s) ELSE s

RECURSIVE until_white_space_loop(_)
until_white_space_loop(s) ==
    IF got_error(s) THEN s
    ELSE IF ~is_blank_or_tab(s.cur_byte) /\ s.cur_byte # LF
    THEN until_white_space_loop(read_byte([s EXCEPT !.cur_token = Append(@, s.cur_byte)]))
    ELSE s

read_token_until_white_space(s) ==
    until_white_space_loop([s EXCEPT !.cur_token = <<>>])

RECURSIVE name_loop(_)
name_loop(s) ==
    LET r == read_byte([s EXCEPT !.cur_token = Append(@, s.cur_byte)])
    IN  IF got_error(r) THEN r
        ELSE IF ~is_valid_label_name_continuation(r.cur_byte) THEN r
        ELSE name_loop(r)

read_token_as_metric_name(s) ==
    LET c == [s EXCEPT !.cur_token = <<>>]
    IN  IF ~is_valid_metric_name_start(c.cur_byte) THEN c ELSE name_loop(c)

read_token_as_label_name(s) ==
    LET c == [s EXCEPT !.cur_token = <<>>]
    IN  IF ~is_valid_label_name_start(c.cur_byte) THEN c ELSE name_loop(c)

RECURSIVE label_value_loop(_, _)
label_value_loop(s, escaped) ==
    LET r == read_byte(s)
    IN  IF got_error(r) THEN r
        ELSE IF escaped THEN
            IF r.cur_byte = DQ \/ r.cur_byte = BS
            THEN label_value_loop([r EXCEPT !.cur_token = Append(@, r.cur_byte)], FALSE)
            ELSE IF r.cur_byte = "n"
            THEN label_value_loop([r EXCEPT !.cur_token = Append(@, LF)], FALSE)
            ELSE SetError(r, ErrInvalidEscape)
        ELSE IF r.cur_byte = DQ THEN r
        ELSE IF r.cur_byte = LF
        THEN label_value_loop(SetError(r, ErrUnescapedNewline), FALSE)
        ELSE IF r.cur_byte = BS THEN label_value_loop(r, TRUE)
        ELSE label_value_loop([r EXCEPT !.cur_token = Append(@, r.cur_byte)], FALSE)

\* the label-value scan with unknown escapes kept as the escaped byte
RECURSIVE label_value_loop_keep_unknown(_, _)
label_value_loop_keep_unknown(s, escaped) ==
    LET r == read_byte(s)
    IN  IF got_error(r) THEN r
        ELSE IF escaped THEN
            IF r.cur_byte = "n"
            THEN label_value_loop_keep_unknown([r EXCEPT !.cur_token = Append(@, LF)], FALSE)
            ELSE label_value_loop_keep_unknown(
                     [r EXCEPT !.cur_token = Append(@, r.cur_byte)], FALSE)
        ELSE IF r.cur_byte = DQ THEN r
        ELSE IF r.cur_byte = LF
        THEN label_value_loop_keep_unknown(SetError(r, ErrUnescapedNewline), FALSE)
        ELSE IF r.cur_byte = BS THEN label_value_loop_keep_unknown(r, TRUE)
        ELSE label_value_loop_keep_unknown(
                 [r EXCEPT !.cur_token = Append(@, r.cur_byte)], FALSE)

read_token_as_label_value_keep_unknown(s) ==
    label_value_loop_keep_unknown([s EXCEPT !.cur_token = <<>>], FALSE)

\* the label-value scan that takes the escape \n as the letter n
RECURSIVE label_value_loop_n_literal(_, _)
label_value_loop_n_literal(s, escaped) ==
    LET r == read_byte(s)
    IN  IF got_error(r) THEN r
        ELSE IF escaped THEN
            IF r.cur_byte = DQ \/ r.cur_byte = BS \/ r.cur_byte = "n"
            THEN label_value_loop_n_literal(
                     [r EXCEPT !.cur_token = Append(@, r.cur_byte)], FALSE)
            ELSE SetError(r, ErrInvalidEscape)
        ELSE IF r.cur_byte = DQ THEN r
        ELSE IF r.cur_byte = LF
        THEN label_value_loop_n_literal(SetError(r, ErrUnescapedNewline), FALSE)
        ELSE IF r.cur_byte = BS THEN label_value_loop_n_literal(r, TRUE)
        ELSE label_value_loop_n_literal(
                 [r EXCEPT !.cur_token = Append(@, r.cur_byte)], FALSE)

read_token_as_label_value_n_literal(s) ==
    label_value_loop_n_literal([s EXCEPT !.cur_token = <<>>], FALSE)

read_token_as_label_value(s) ==
    label_value_loop([s EXCEPT !.cur_token = <<>>], FALSE)

RECURSIVE until_newline_loop(_, _, _)
until_newline_loop(s, recognize_escape_seq, escaped) ==
    IF got_error(s) THEN s
    ELSE IF recognize_escape_seq /\ escaped THEN
        IF s.cur_byte = BS
        THEN until_newline_loop(read_byte([s EXCEPT !.cur_token = Append(@, s.cur_byte)]),
                                recognize_escape_seq, escaped)
        ELSE IF s.cur_byte = "n"
        THEN until_newline_loop(read_byte([s EXCEPT !.cur_token = Append(@, LF)]),
                                recognize_escape_seq, escaped)
        ELSE until_newline_loop(read_byte(SetError(s, ErrInvalidEscape)),
                                recognize_escape_seq, escaped)
    ELSE IF s.cur_byte = LF THEN s
    ELSE IF s.cur_byte = BS
    THEN until_newline_loop(read_byte(s), recognize_escape_seq, TRUE)
    ELSE until_newline_loop(read_byte([s EXCEPT !.cur_token = Append(@, s.cur_byte)]),
                            recognize_escape_seq, escaped)

read_token_until_newline(s, recognize_escape_seq) ==
    until_newline_loop([s EXCEPT !.cur_token = <<>>], recognize_escape_seq, FALSE)

-----------------------------------------------------------------------------
(* Family registry *)

\* Rc::new(RefCell::new(MetricFamily::new())) assigned to cur_mf
AllocCurMf(s) ==
    [s EXCEPT !.mfs = Append(@, NewMetricFamily), !.cur_mf = Len(s.mfs) + 1]

\* set_or_create_cur_mf that makes a new family for a name the registry has
set_or_create_cur_mf_replace(s) ==
    LET c == [s EXCEPT !.parser_status = None]
        name == c.cur_token
        mf == CurMf(c)
        mf_type == get_field_type(mf)
        fresh == AllocCurMf(c)
        created == [fresh EXCEPT !.mfs[fresh.cur_mf].name = name,
                                 !.mf_by_name = MapInsert(@, name, fresh.cur_mf)]
    IN  IF mf.name = name THEN c
        ELSE IF mf_type = "SUMMARY" /\ mf.name = summary_metric_name(name) THEN
            IF is_count(name) THEN [c EXCEPT !.parser_status = "OnSummaryCount"]
            ELSE IF is_sum(name) THEN [c EXCEPT !.parser_status = "OnSummarySum"]
            ELSE c
        ELSE IF mf_type = "HISTOGRAM" /\ mf.name = histogram_metric_name(name) THEN
            IF is_count(name) THEN [c EXCEPT !.parser_status = "OnHistogramCount"]
            ELSE IF is_sum(name) THEN [c EXCEPT !.parser_status = "OnHistogramSum"]
            ELSE c
        ELSE created

set_or_create_cur_mf(s) ==
    LET c == [s EXCEPT !.parser_status = None]
        name == c.cur_token
        mf == CurMf(c)
        mf_type == get_field_type(mf)
        fresh == AllocCurMf(c)
        created == [fresh EXCEPT !.mfs[fresh.cur_mf].name = name,
                                 !.mf_by_name = MapInsert(@, name, fresh.cur_mf)]
    IN  IF mf.name = name THEN c
        ELSE IF name \in DOMAIN c.mf_by_name THEN c
        ELSE IF mf_type = "SUMMARY" /\ mf.name = summary_metric_name(name) THEN
            IF is_count(name) THEN [c EXCEPT !.parser_status = "OnSummaryCount"]
            ELSE IF is_sum(name) THEN [c EXCEPT !.parser_status = "OnSummarySum"]
            ELSE c
        ELSE IF mf_type = "HISTOGRAM" /\ mf.name = histogram_metric_name(name) THEN
            IF is_count(name) THEN [c EXCEPT !.parser_status = "OnHistogramCount"]
            ELSE IF is_sum(name) THEN [c EXCEPT !.parser_status = "OnHistogramSum"]
            ELSE c
        ELSE created

-----------------------------------------------------------------------------
(* State functions: each maps the parser to the parser after one call *)

start_of_line(s) ==
    LET r == skip_blank_tab([s EXCEPT !.line_count = @ + 1])
    IN  IF got_error(r) THEN r
        ELSE IF r.cur_byte = "#" THEN SetNext(r, "start_comment")
        ELSE IF r.cur_byte = LF THEN SetNext(r, "start_of_line")
        ELSE SetNext(r, "reading_metric_name")

\* the loop that discards a comment that is neither HELP nor TYPE
RECURSIVE comment_loop(_)
comment_loop(s) ==
    IF s.cur_byte = LF THEN
        IF s.next_fn = None /\ got_error(s) THEN Panic(s)
        ELSE SetNext(s, "start_of_line")
    ELSE IF got_error(s) THEN SetNext(s, None)
    ELSE comment_loop(read_byte(s))

\* start_comment from the metric name of a HELP or TYPE line on
directive(s, on_help, on_type) ==
    LET a == skip_blank_tab(s)
        b == read_token_as_metric_name(a)
        c == set_or_create_cur_mf(b)
        d == skip_blank_tab(c)
    IN  IF got_error(a) THEN SetNext(a, None)
        ELSE IF got_error(b) THEN SetNext(b, None)
        ELSE IF b.cur_byte = LF THEN SetNext(b, "start_of_line")
        ELSE IF ~is_blank_or_tab(b.cur_byte) THEN SetNext(b, None)
        ELSE IF got_error(d) THEN SetNext(d, None)
        ELSE IF d.cur_byte = LF THEN SetNext(d, "start_of_line")
        ELSE IF on_help THEN SetNext(d, "reading_help")
        ELSE IF on_type THEN SetNext(d, "reading_type")
        ELSE SetNext(SetError(d, ErrKeyword), None)

\* start_comment that forgets the parser status on a plain comment
start_comment_reset(s) ==
    LET a == skip_blank_tab(s)
        b == read_token_until_white_space(a)
    IN  IF got_error(a) THEN SetNext(a, None)
        ELSE IF a.cur_byte = LF THEN SetNext(a, "start_of_line")
        ELSE IF got_error(b) THEN SetNext(b, None)
        ELSE IF b.cur_byte = LF THEN SetNext(b, "start_of_line")
        ELSE IF b.cur_token = tok_HELP THEN directive(b, TRUE, FALSE)
        ELSE IF b.cur_token = tok_TYPE THEN directive(b, FALSE, TRUE)
        ELSE comment_loop([b EXCEPT !.parser_status = None])

start_comment(s) ==
    LET a == skip_blank_tab(s)
        b == read_token_until_white_space(a)
    IN  IF got_error(a) THEN SetNext(a, None)
        ELSE IF a.cur_byte = LF THEN SetNext(a, "start_of_line")
        ELSE IF got_error(b) THEN SetNext(b, None)
        ELSE IF b.cur_byte = LF THEN SetNext(b, "start_of_line")
        ELSE IF b.cur_token = tok_HELP THEN directive(b, TRUE, FALSE)
        ELSE IF b.cur_token = tok_TYPE THEN directive(b, FALSE, TRUE)
        ELSE comment_loop(b)

\* reading_help that sets the HELP text on the family the line names
reading_help_keep_cur_mf(s) ==
    LET a == read_token_until_newline(s, TRUE)
    IN  IF got_error(a) THEN SetNext(a, None)
        ELSE IF Len(CurMf(a).help) > 0 THEN SetNext(SetError(a, ErrSecondHelp), None)
        ELSE SetNext([a EXCEPT !.mfs[a.cur_mf].help = a.cur_token], "start_of_line")

reading_help(s) ==
    LET a == read_token_until_newline(s, TRUE)
        b == AllocCurMf(a)
    IN  IF got_error(a) THEN SetNext(a, None)
        ELSE IF Len(CurMf(b).help) > 0 THEN SetNext(SetError(b, ErrSecondHelp), None)
        ELSE SetNext([b EXCEPT !.mfs[b.cur_mf].help = b.cur_token], "start_of_line")

reading_type(s) ==
    LET a == read_token_until_newline(s, FALSE)
        t == a.cur_token
        set(ty) == SetNext([a EXCEPT !.mfs[a.cur_mf].field_type = ty], "start_of_line")
    IN  IF got_error(a) THEN SetNext(a, None)
        ELSE IF t = tok_summary THEN set("SUMMARY")
        ELSE IF t = tok_counter THEN set("COUNTER")
        ELSE IF t = tok_gauge THEN set("GAUGE")
        ELSE IF t = tok_histogram THEN set("HISTOGRAM")
        ELSE Panic(a)

\* reading_metric_name that looks the family up before it tests the token
reading_metric_name_create_first(s) ==
    LET a == read_token_as_metric_name(s)
        b == set_or_create_cur_mf(a)
        c == skip_blank_tab_if_current_blank_tab([b EXCEPT !.cur_metric = <<NewMetric>>])
    IN  IF got_error(a) THEN SetNext(a, None)
        ELSE IF Len(a.cur_token) = 0
        THEN SetNext(SetError(b, ErrInvalidMetricName), None)
        ELSE IF got_error(c) THEN SetNext(c, None)
        ELSE SetNext(c, "reading_labels")

\* reading_metric_name that leaves cur_metric as the line before left it
reading_metric_name_keep_metric(s) ==
    LET a == read_token_as_metric_name(s)
        b == set_or_create_cur_mf(a)
        c == skip_blank_tab_if_current_blank_tab(b)
    IN  IF got_error(a) THEN SetNext(a, None)
        ELSE IF Len(a.cur_token) = 0
        THEN SetNext(SetError(a, ErrInvalidMetricName), None)
        ELSE IF got_error(c) THEN SetNext(c, None)
        ELSE SetNext(c, "reading_labels")

reading_metric_name(s) ==
    LET a == read_token_as_metric_name(s)
        b == set_or_create_cur_mf(a)
        c == skip_blank_tab_if_current_blank_tab([b EXCEPT !.cur_metric = <<NewMetric>>])
    IN  IF got_error(a) THEN SetNext(a, None)
        ELSE IF Len(a.cur_token) = 0
        THEN SetNext(SetError(a, ErrInvalidMetricName), None)
        ELSE IF got_error(c) THEN SetNext(c, None)
        ELSE SetNext(c, "reading_labels")

reading_labels(s) ==
    LET ty == get_field_type(CurMf(s))
        a == IF ty = "HISTOGRAM" \/ ty = "SUMMARY"
             THEN [s EXCEPT !.cur_labels = MapInsert(EmptyMap, tok_reserved, CurMf(s).name),
                            !.cur_quantile = NaN,
                            !.cur_bucket = NaN]
             ELSE s
    IN  IF a.cur_byte # "{" THEN SetNext(a, "reading_value")
        ELSE SetNext(a, "start_label_name")

start_timestamp(s) == Panic(s)

\* start_label_name that goes on to the label value whatever follows the name
start_label_name_no_eq_check(s) ==
    LET a == skip_blank_tab(s)
        closed == skip_blank_tab(a)
        b == read_token_as_label_name(a)
        label_name == b.cur_token
        c == IF label_name = tok_le
             THEN [b EXCEPT !.mfs[b.cur_mf].field_type = "HISTOGRAM"]
             ELSE IF label_name = tok_quantile
             THEN [b EXCEPT !.mfs[b.cur_mf].field_type = "SUMMARY"]
             ELSE b
        cur_lp == [name |-> label_name, value |-> <<>>]
        d == IF label_name = tok_reserved THEN SetError(c, ErrReserved) ELSE c
        e == skip_blank_tab_if_current_blank_tab(
                 [d EXCEPT !.cur_metric[1].label = Append(@, cur_lp)])
    IN  IF got_error(a) THEN SetNext(a, None)
        ELSE IF a.cur_byte = "}" THEN
            IF got_error(closed) THEN SetNext(closed, None)
            ELSE SetNext(closed, "reading_value")
        ELSE IF got_error(b) THEN SetNext(b, None)
        ELSE IF Len(b.cur_token) = 0
        THEN SetNext(SetError(b, ErrInvalidLabelName), None)
        ELSE IF d.cur_metric = <<>> THEN Panic(d)
        ELSE SetNext(e, "start_label_value")

start_label_name(s) ==
    LET a == skip_blank_tab(s)
        closed == skip_blank_tab(a)
        b == read_token_as_label_name(a)
        label_name == b.cur_token
        c == IF label_name = tok_le
             THEN [b EXCEPT !.mfs[b.cur_mf].field_type = "HISTOGRAM"]
             ELSE IF label_name = tok_quantile
             THEN [b EXCEPT !.mfs[b.cur_mf].field_type = "SUMMARY"]
             ELSE b
        cur_lp == [name |-> label_name, value |-> <<>>]
        d == IF label_name = tok_reserved THEN SetError(c, ErrReserved) ELSE c
        e == skip_blank_tab_if_current_blank_tab(
                 [d EXCEPT !.cur_metric[1].label = Append(@, cur_lp)])
    IN  IF got_error(a) THEN SetNext(a, None)
        ELSE IF a.cur_byte = "}" THEN
            IF got_error(closed) THEN SetNext(closed, None)
            ELSE SetNext(closed, "reading_value")
        ELSE IF got_error(b) THEN SetNext(b, None)
        ELSE IF Len(b.cur_token) = 0
        THEN SetNext(SetError(b, ErrInvalidLabelName), None)
        ELSE IF d.cur_metric = <<>> THEN Panic(d)
        ELSE IF e.cur_byte # "=" THEN SetNext(SetError(e, ErrExpectEq), None)
        ELSE SetNext(e, "start_label_value")

\* start_label_value after the closing quote: blanks, then ',' or '}'
after_label_value(s) ==
    LET d == skip_blank_tab(s)
        e == skip_blank_tab(d)
    IN  IF got_error(d) THEN SetNext(d, None)
        ELSE IF d.cur_byte = "," THEN SetNext(d, "start_label_name")
        ELSE IF d.cur_byte = "}" THEN
            IF got_error(e) THEN SetNext(e, None)
            ELSE SetNext(e, "reading_value")
        ELSE SetError(SetNext(d, None), ErrEndOfLabelValue)

start_label_value(s) ==
    LET a == skip_blank_tab(s)
        b == read_token_as_label_value(a)
        n == Len(b.cur_metric[1].label)
        c == IF n > 0
             THEN [b EXCEPT !.cur_metric[1].label[n].value = b.cur_token,
                            !.cur_labels = MapInsert(@, b.cur_metric[1].label[n].name,
                                                     b.cur_token)]
             ELSE b
        ty == get_field_type(CurMf(c))
        f == parse_float(c.cur_token)
    IN  IF got_error(a) THEN SetNext(a, None)
        ELSE IF a.cur_byte # DQ THEN SetNext(SetError(a, ErrExpectQuote), None)
        ELSE IF got_error(b) THEN SetNext(b, None)
        ELSE IF b.cur_metric = <<>> THEN Panic(b)
        ELSE IF ty = "SUMMARY" /\ n > 0 /\ c.cur_metric[1].label[n].name = tok_quantile THEN
            IF f = <<>> THEN SetNext(SetError(c, ErrQuantileFloat), None)
            ELSE after_label_value([c EXCEPT !.cur_quantile = f[1]])
        ELSE IF ty = "HISTOGRAM" /\ n > 0 /\ c.cur_metric[1].label[n].name = tok_le THEN
            IF f = <<>> THEN SetNext(SetError(c, ErrLeFloat), None)
            ELSE after_label_value([c EXCEPT !.cur_bucket = f[1]])
        ELSE after_label_value(c)

\* self.cur_mf.borrow_mut().mut_metric().push(m.clone())
PushMetric(s) ==
    IF s.cur_metric = <<>> THEN s
    ELSE [s EXCEPT !.mfs[s.cur_mf].metric = Append(@, s.cur_metric[1])]

\* the end of reading_value: newline or timestamp
after_value(s) ==
    IF s.cur_byte = LF THEN SetNext(s, "start_of_line")
    ELSE SetNext(s, "start_timestamp")

\* reading_value that parses the token whether or not the read failed
reading_value_ignore_eof(s) ==
    LET a == read_token_until_white_space(s)
        f == parse_float(a.cur_token)
        float_val == f[1]
        mftype == get_field_type(CurMf(a))
        m == a.cur_metric[1]
        h == mut_histogram(m)
        sm == mut_summary(m)
        bkt == [upper_bound |-> a.cur_bucket, cumulative_count |-> as_u64(float_val)]
        q == [quantile |-> a.cur_quantile, value |-> float_val]
    IN  IF f = <<>> THEN SetNext(SetError(a, ErrParseFloat), None)
        ELSE IF a.cur_metric = <<>> THEN Panic(a)
        ELSE IF mftype = "COUNTER"
        THEN after_value(PushMetric([a EXCEPT !.cur_metric[1].counter = <<float_val>>]))
        ELSE IF mftype = "GAUGE"
        THEN after_value(PushMetric([a EXCEPT !.cur_metric[1].gauge = <<float_val>>]))
        ELSE IF mftype = "HISTOGRAM" THEN
            IF a.parser_status = "OnHistogramCount"
            THEN after_value(PushMetric([a EXCEPT !.cur_metric[1].histogram =
                     <<[h EXCEPT !.sample_count = as_u64(float_val)]>>]))
            ELSE IF a.parser_status = "OnHistogramSum"
            THEN after_value(PushMetric([a EXCEPT !.cur_metric[1].histogram =
                     <<[h EXCEPT !.sample_sum = float_val]>>]))
            ELSE IF f64_ne(a.cur_bucket, NaN)
            THEN after_value(PushMetric([a EXCEPT !.cur_metric[1].histogram =
                     <<[h EXCEPT !.bucket = Append(@, bkt)]>>]))
            ELSE after_value(PushMetric(a))
        ELSE IF mftype = "SUMMARY" THEN
            IF a.parser_status = "OnSummaryCount"
            THEN after_value(PushMetric([a EXCEPT !.cur_metric[1].summary =
                     <<[sm EXCEPT !.sample_count = as_u64(float_val)]>>]))
            ELSE IF a.parser_status = "OnSummarySum"
            THEN after_value(PushMetric([a EXCEPT !.cur_metric[1].summary =
                     <<[sm EXCEPT !.sample_sum = float_val]>>]))
            ELSE IF f64_ne(a.cur_quantile, NaN)
            THEN after_value(PushMetric([a EXCEPT !.cur_metric[1].summary =
                     <<[sm EXCEPT !.quantile = Append(@, q)]>>]))
            ELSE after_value(PushMetric(a))
        ELSE Panic(a)

reading_value(s) ==
    LET a == read_token_until_white_space(s)
        f == parse_float(a.cur_token)
        float_val == f[1]
        mftype == get_field_type(CurMf(a))
        m == a.cur_metric[1]
        h == mut_histogram(m)
        sm == mut_summary(m)
        bkt == [upper_bound |-> a.cur_bucket, cumulative_count |-> as_u64(float_val)]
        q == [quantile |-> a.cur_quantile, value |-> float_val]
    IN  IF got_error(a) THEN SetNext(a, None)
        ELSE IF f = <<>> THEN SetNext(SetError(a, ErrParseFloat), None)
        ELSE IF a.cur_metric = <<>> THEN Panic(a)
        ELSE IF mftype = "COUNTER"
        THEN after_value(PushMetric([a EXCEPT !.cur_metric[1].counter = <<float_val>>]))
        ELSE IF mftype = "GAUGE"
        THEN after_value(PushMetric([a EXCEPT !.cur_metric[1].gauge = <<float_val>>]))
        ELSE IF mftype = "HISTOGRAM" THEN
            IF a.parser_status = "OnHistogramCount"
            THEN after_value(PushMetric([a EXCEPT !.cur_metric[1].histogram =
                     <<[h EXCEPT !.sample_count = as_u64(float_val)]>>]))
            ELSE IF a.parser_status = "OnHistogramSum"
            THEN after_value(PushMetric([a EXCEPT !.cur_metric[1].histogram =
                     <<[h EXCEPT !.sample_sum = float_val]>>]))
            ELSE IF f64_ne(a.cur_bucket, NaN)
            THEN after_value(PushMetric([a EXCEPT !.cur_metric[1].histogram =
                     <<[h EXCEPT !.bucket = Append(@, bkt)]>>]))
            ELSE after_value(PushMetric(a))
        ELSE IF mftype = "SUMMARY" THEN
            IF a.parser_status = "OnSummaryCount"
            THEN after_value(PushMetric([a EXCEPT !.cur_metric[1].summary =
                     <<[sm EXCEPT !.sample_count = as_u64(float_val)]>>]))
            ELSE IF a.parser_status = "OnSummarySum"
            THEN after_value(PushMetric([a EXCEPT !.cur_metric[1].summary =
                     <<[sm EXCEPT !.sample_sum = float_val]>>]))
            ELSE IF f64_ne(a.cur_quantile, NaN)
            THEN after_value(PushMetric([a EXCEPT !.cur_metric[1].summary =
                     <<[sm EXCEPT !.quantile = Append(@, q)]>>]))
            ELSE after_value(PushMetric(a))
        ELSE Panic(a)

-----------------------------------------------------------------------------
(* Documents: lines of the text exposition format, rendered to bytes *)

RECURSIVE Flatten(_)
Flatten(ls) == IF ls = <<>> THEN <<>> ELSE Head(ls) \o Flatten(Tail(ls))

HelpLine(name, text) ==
    <<"#", SP>> \o tok_HELP \o <<SP>> \o name \o <<SP>> \o text \o <<LF>>

TypeLine(name, ty) ==
    <<"#", SP>> \o tok_TYPE \o <<SP>> \o name \o <<SP>> \o ty \o <<LF>>

\* a label is [name, value]; the value is written between quotes as it stands
RECURSIVE RenderLabelList(_)
RenderLabelList(ls) ==
    IF ls = <<>> THEN <<>>
    ELSE Head(ls).name \o <<"=", DQ>> \o Head(ls).value \o <<DQ>>
         \o (IF Len(ls) > 1 THEN <<",">> ELSE <<>>) \o RenderLabelList(Tail(ls))

RenderLabels(ls) == IF ls = <<>> THEN <<>> ELSE <<"{">> \o RenderLabelList(ls) \o <<"}">>

SampleLine(name, labels, value) ==
    name \o RenderLabels(labels) \o <<SP>> \o value \o <<LF>>

Lbl(n, v) == [name |-> n, value |-> v]

nA == <<"a">>
nB == <<"b">>
nD == <<"d">>
nH == <<"h">>

\* HELP, TYPE and samples of counter families
PalCounter ==
    { HelpLine(nA, <<"t">>), HelpLine(nA, <<"u">>), TypeLine(nA, tok_counter),
      SampleLine(nA, <<Lbl(<<"p">>, <<"v">>)>>, <<"1">>),
      SampleLine(nA, <<>>, <<"2">>),
      SampleLine(nB, <<>>, <<"3">>) }

\* a summary family with its quantile, _sum and _count samples
PalSummary ==
    { TypeLine(nD, tok_summary),
      SampleLine(nD, <<Lbl(tok_quantile, <<"0",".","5">>)>>, <<"1">>),
      SampleLine(nD, <<Lbl(tok_quantile, <<"0",".","9">>)>>, <<"2">>),
      SampleLine(nD \o suf_sum, <<>>, <<"4">>),
      SampleLine(nD \o suf_count, <<>>, <<"7">>),
      SampleLine(nB, <<>>, <<"3">>) }

\* a histogram family with its _bucket, _sum and _count samples
PalHistogram ==
    { TypeLine(nH, tok_histogram),
      SampleLine(nH \o suf_bucket, <<Lbl(<<"l">>, <<"w">>), Lbl(tok_le, <<"1">>)>>, <<"5">>),
      SampleLine(nH \o suf_sum, <<Lbl(<<"l">>, <<"w">>)>>, <<"4">>),
      SampleLine(nH \o suf_count, <<Lbl(<<"l">>, <<"w">>)>>, <<"5">>),
      SampleLine(nB, <<>>, <<"3">>) }

\* the reserved label name, a raw newline inside a label value
ReservedLine == SampleLine(nA, <<Lbl(tok_reserved, <<"b">>)>>, <<"1">>)

RawNewlineLine == SampleLine(nA, <<Lbl(<<"k">>, <<"x", LF, "y">>)>>, <<"1">>)

PalLabels ==
    { ReservedLine, RawNewlineLine,
      SampleLine(nA, <<Lbl(<<"k">>, <<"v">>), Lbl(<<"j">>, <<"w">>)>>, <<"1">>),
      SampleLine(nB, <<Lbl(<<"k">>, <<"v">>)>>, <<"2">>),
      TypeLine(nA, tok_gauge) }

\* bytes that follow a backslash and are not an escape of label values
BadEscapeBytes == {"q", "t", LF}

BadEscapeLine(c) == SampleLine(nA, <<Lbl(<<"k">>, <<"x", BS, c, "y">>)>>, <<"1">>)

BadEscapeLines ==
    {BadEscapeLine(c) : c \in BadEscapeBytes}
    \cup {SampleLine(nA, <<Lbl(<<"j">>, <<"v">>), Lbl(<<"k">>, <<BS, "q">>)>>, <<"1">>)}

PalEscape ==
    BadEscapeLines
    \cup { SampleLine(nA, <<Lbl(<<"k">>, <<"x", BS, DQ, BS, "n", BS, BS>>)>>, <<"1">>),
           SampleLine(nB, <<Lbl(<<"k">>, <<"v">>)>>, <<"2">>) }

\* HELP texts with escapes
PalHelp ==
    { HelpLine(nA, <<"x", BS, "n", "y">>),
      HelpLine(nA, <<"x", BS, BS>>),
      HelpLine(nA, <<"x", BS, "q">>),
      HelpLine(nA, <<"t">>),
      SampleLine(nB, <<>>, <<"3">>) }

\* TYPE lines: known and unknown type tokens, a family declared twice
tok_untyped == <<"u","n","t","y","p","e","d">>

PalType ==
    { TypeLine(nA, tok_counter), TypeLine(nA, tok_gauge),
      TypeLine(nA, tok_untyped), TypeLine(nA, <<"f","o","o">>),
      SampleLine(nA, <<>>, <<"2">>) }

\* one sample line and one TYPE line, with blanks and tabs between their tokens
WsLabels == <<Lbl(<<"k">>, <<"v">>), Lbl(<<"j">>, <<"w">>)>>

WsCanonical == SampleLine(nA, WsLabels, <<"1">>)

WsAfterValue == nA \o RenderLabels(WsLabels) \o <<SP, "1", SP, LF>>

SampleVariants ==
    { WsCanonical,
      nA \o <<SP>> \o RenderLabels(WsLabels) \o <<SP, "1", LF>>,
      <<"a", "{", SP, "k", SP, "=", TAB, DQ, "v", DQ, SP, ",", SP, "j", "=", DQ, "w", DQ,
        SP, "}", SP, "1", LF>>,
      nA \o RenderLabels(WsLabels) \o <<TAB, SP, "1", LF>>,
      <<SP, TAB>> \o WsCanonical,
      WsAfterValue }

TypeVariants ==
    { TypeLine(nA, tok_gauge),
      <<"#", SP>> \o tok_TYPE \o <<SP, TAB, "a", SP, SP>> \o tok_gauge \o <<LF>> }

PalBlank == SampleVariants \cup TypeVariants

\* lines that stop the parse, after lines with and without a raw newline
PalLineCount ==
    { RawNewlineLine, BadEscapeLine("q"), <<"a", SP, "x", LF>>, <<LF>>,
      SampleLine(nB, <<Lbl(<<"k">>, <<"v">>)>>, <<"2">>) }

\* metric names with a colon, in sample lines and directives
nAB == <<"a", ":", "b">>
nCA == <<":", "a">>

ColonNames == {nAB, nCA}

ColonLines(n) ==
    {SampleLine(n, <<>>, <<"1">>), TypeLine(n, tok_gauge), HelpLine(n, <<"t">>)}

PalColon ==
    UNION {ColonLines(n) : n \in ColonNames} \cup {SampleLine(nB, <<>>, <<"3">>)}

\* a sample line that repeats a label name
DupLabelLine == SampleLine(nA, <<Lbl(<<"k">>, <<"v">>), Lbl(<<"k">>, <<"w">>)>>, <<"1">>)

PalDup ==
    { DupLabelLine,
      SampleLine(nA, <<Lbl(<<"k">>, <<"v">>), Lbl(<<"j">>, <<"w">>)>>, <<"1">>),
      SampleLine(nB, <<Lbl(<<"k">>, <<"v">>)>>, <<"2">>),
      TypeLine(nA, tok_gauge) }

\* inputs that end in the middle of a line
PalTrunc ==
    { <<"a", SP, "1">>,
      <<"a", "{", "k", "=", DQ, "v">>,
      <<"a", "{", "k">>,
      <<"#", SP, "c", SP, "x">>,
      <<"#", SP>> \o tok_HELP \o <<SP, "a", SP, "t", BS>>,
      <<"#", SP>> \o tok_TYPE \o <<SP, "a">>,
      SampleLine(nA, <<>>, <<"2">>) }

\* a histogram family as in test_basic_parse: the HELP and TYPE lines, a
\* _bucket line, the _sum and _count lines
nHsum == nH \o suf_sum

HistHeader(t) == HelpLine(nH, t) \o TypeLine(nH, tok_histogram)

HistBucket(le) ==
    SampleLine(nH \o suf_bucket, <<Lbl(<<"l">>, <<"w">>), Lbl(tok_le, le)>>, <<"5">>)

HistSumCount ==
    SampleLine(nHsum, <<Lbl(<<"l">>, <<"w">>)>>, <<"4">>)
    \o SampleLine(nH \o suf_count, <<Lbl(<<"l">>, <<"w">>)>>, <<"5">>)

PalBasic ==
    { HistHeader(<<"t">>), HistHeader(<<"u">>), HistBucket(<<"1">>), HistBucket(<<"2">>),
      HistSumCount, TypeLine(nH, tok_histogram) }

\* a family with a declared type and sample lines with le and quantile labels
PalHint ==
    { TypeLine(nA, tok_gauge), TypeLine(nA, tok_counter),
      SampleLine(nA, <<Lbl(tok_le, <<"1">>)>>, <<"2">>),
      SampleLine(nA, <<Lbl(tok_quantile, <<"0", ".", "5">>)>>, <<"2">>),
      SampleLine(nA, <<>>, <<"2">>) }

\* HELP and TYPE lines of family n that end after the metric name, or after
\* blanks that follow it
BareLines(n) ==
    { <<"#", SP>> \o tok_TYPE \o <<SP>> \o n \o <<LF>>,
      <<"#", SP>> \o tok_HELP \o <<SP>> \o n \o <<LF>>,
      <<"#", SP>> \o tok_TYPE \o <<SP>> \o n \o <<SP, LF>>,
      TypeLine(n, tok_gauge) }

PalBare == BareLines(nA) \cup {SampleLine(nB, <<>>, <<"3">>)}

\* comments that are neither HELP nor TYPE, after lines that leave a family,
\* an in-progress metric and a parser status behind
PalComment ==
    { <<"#", LF>>, <<"#", SP, LF>>, <<"#", "c", LF>>,
      <<"#", SP, "c", SP, "x", LF>>,
      <<"#", TAB>> \o tok_TYPE \o <<"s", SP, "a", SP, "x", LF>>,
      TypeLine(nD, tok_summary),
      SampleLine(nD \o suf_count, <<>>, <<"7">>) }

\* lines whose first byte after blanks and tabs cannot start a metric name
BadNameLines ==
    { <<"1", "x", SP, "1", LF>>,
      <<SP, TAB, "{", "k", "}", SP, "1", LF>>,
      <<"=", LF>>,
      <<DQ, "a", DQ, SP, "1", LF>> }

PalBadName ==
    BadNameLines
    \cup { SampleLine(nA, <<Lbl(<<"p">>, <<"v">>)>>, <<"1">>),
           SampleLine(nB, <<>>, <<"3">>),
           TypeLine(nA, tok_gauge) }

\* sample lines with a label name that is not followed by '='
NoEqLines ==
    { <<"a", "{", "k", DQ, "v", DQ, "}", SP, "1", LF>>,
      <<"a", "{", "k", SP, TAB, "}", SP, "1", LF>>,
      <<"a", "{", "j", "=", DQ, "w", DQ, ",", SP, "k", SP, ":", DQ, "v", DQ, "}", SP, "1", LF>>,
      <<"a", "{", "l", "e", SP, "1", "}", SP, "2", LF>> }

PalNoEq ==
    NoEqLines
    \cup { SampleLine(nA, <<Lbl(<<"k">>, <<"v">>)>>, <<"1">>),
           SampleLine(nB, <<>>, <<"3">>) }

\* histogram and summary families with plain samples that carry no le and no
\* quantile label
PalPlain ==
    { TypeLine(nH, tok_histogram),
      SampleLine(nH \o suf_bucket, <<Lbl(<<"l">>, <<"w">>)>>, <<"5">>),
      SampleLine(nH \o suf_bucket, <<Lbl(<<"l">>, <<"w">>), Lbl(tok_le, <<"1">>)>>, <<"5">>),
      TypeLine(nD, tok_summary),
      SampleLine(nD, <<>>, <<"1">>),
      SampleLine(nD, <<Lbl(tok_quantile, <<"0", ".", "5">>)>>, <<"1">>) }

\* TYPE lines with a backslash in the payload, or with no metric name
PalTypeEscape ==
    { TypeLine(nA, <<"g", BS, "a", "u", "g", "e">>),
      TypeLine(nA, <<"x", BS, BS, "y">>),
      TypeLine(<<>>, tok_gauge), TypeLine(<<"1">>, tok_gauge),
      TypeLine(nA, tok_gauge),
      SampleLine(nA, <<>>, <<"2">>) }

\* inputs that end right after the value token of a sample
ValueEofLines ==
    { <<"a", SP, "1">>,
      <<"a", "{", "k", "=", DQ, "v", DQ, "}", SP, "1">>,
      nD \o suf_count \o <<SP, "7">> }

PalValueEof ==
    ValueEofLines
    \cup { TypeLine(nD, tok_summary), SampleLine(nA, <<>>, <<"2">>),
           SampleLine(nB, <<>>, <<"3">>) }

\* blank lines, comments, timestamps, truncated and malformed lines
PalMisc ==
    { <<LF>>, <<"#", SP, "c", SP, "x", LF>>,
      <<"a", SP, "1", SP, "5", LF>>,
      <<"1", "x", SP, "1", LF>>,
      <<"a", SP, "x", LF>>,
      SampleLine(nA, <<>>, <<"2">>) }

Palettes == {PalCounter, PalSummary, PalHistogram, PalLabels, PalEscape, PalHelp,
             PalType, PalBlank, PalLineCount, PalColon, PalDup, PalTrunc, PalBasic,
             PalHint, PalBare, PalComment, PalBadName, PalNoEq, PalPlain,
             PalTypeEscape, PalValueEof,
             PalMisc}

MaxLines == 3

SeqsUpTo(P, n) == UNION {[1..k -> P] : k \in 0..n}

Docs == UNION {SeqsUpTo(P, MaxLines) : P \in Palettes}

-----------------------------------------------------------------------------
(* The state machine *)

\* TextParser::new(reader)
Init ==
    /\ doc \in Docs
    /\ input = Flatten(doc)
    /\ cur_byte = NUL
    /\ cur_labels = EmptyMap
    /\ mf_by_name = EmptyMap
    /\ mfs = <<NewMetricFamily>>
    /\ cur_mf = 1
    /\ cur_token = <<>>
    /\ cur_bucket = Zero
    /\ cur_quantile = Zero
    /\ parser_status = None
    /\ line_count = 0
    /\ reading_bytes = 0
    /\ cur_metric = <<>>
    /\ error = NoError
    /\ next_fn = None
    /\ pc = "new"
    /\ last_fn = None
    /\ result = None

\* the parser after a state function returned (or panicked)
Commit(r, fn) ==
    /\ cur_byte' = r.cur_byte
    /\ cur_labels' = r.cur_labels
    /\ mf_by_name' = r.mf_by_name
    /\ cur_mf' = r.cur_mf
    /\ cur_token' = r.cur_token
    /\ cur_bucket' = r.cur_bucket
    /\ cur_quantile' = r.cur_quantile
    /\ parser_status' = r.parser_status
    /\ line_count' = r.line_count
    /\ reading_bytes' = r.reading_bytes
    /\ cur_metric' = r.cur_metric
    /\ error' = r.error
    /\ next_fn' = r.next_fn
    /\ mfs' = r.mfs
    /\ pc' = IF r.panic THEN "panic" ELSE "loop"
    /\ last_fn' = fn
    /\ UNCHANGED <<doc, input, result>>

\* text_to_metric_families: entry
Begin ==
    /\ pc = "new"
    /\ next_fn' = "start_of_line"
    /\ pc' = "loop"
    /\ UNCHANGED <<doc, input, cur_byte, cur_labels, mf_by_name, cur_mf, cur_token,
                   cur_bucket, cur_quantile, parser_status, line_count,
                   reading_bytes, cur_metric, error, mfs, last_fn, result>>

\* text_to_metric_families: next_fn is None, the loop breaks and Ok(()) is returned
Stop ==
    /\ pc = "loop"
    /\ next_fn = None
    /\ pc' = "done"
    /\ result' = "Ok"
    /\ UNCHANGED <<doc, input, cur_byte, cur_labels, mf_by_name, cur_mf, cur_token,
                   cur_bucket, cur_quantile, parser_status, line_count,
                   reading_bytes, cur_metric, error, next_fn, mfs, last_fn>>

Call(fn) == pc = "loop" /\ next_fn = fn

StartOfLine == Call("start_of_line") /\ Commit(start_of_line(Self), "start_of_line")

StartComment == Call("start_comment") /\ Commit(start_comment(Self), "start_comment")

ReadingHelp == Call("reading_help") /\ Commit(reading_help(Self), "reading_help")

ReadingType == Call("reading_type") /\ Commit(reading_type(Self), "reading_type")

ReadingMetricName ==
    Call("reading_metric_name") /\ Commit(reading_metric_name(Self), "reading_metric_name")

ReadingLabels == Call("reading_labels") /\ Commit(reading_labels(Self), "reading_labels")

StartLabelName ==
    Call("start_label_name") /\ Commit(start_label_name(Self), "start_label_name")

StartLabelValue ==
    Call("start_label_value") /\ Commit(start_label_value(Self), "start_label_value")

ReadingValue == Call("reading_value") /\ Commit(reading_value(Self), "reading_value")

StartTimestamp ==
    Call("start_timestamp") /\ Commit(start_timestamp(Self), "start_timestamp")

Next ==
    \/ Begin
    \/ StartOfLine
    \/ StartComment
    \/ ReadingHelp
    \/ ReadingType
    \/ ReadingMetricName
    \/ ReadingLabels
    \/ StartLabelName
    \/ StartLabelValue
    \/ ReadingValue
    \/ StartTimestamp
    \/ Stop

Spec == Init /\ [][Next]_vars

-----------------------------------------------------------------------------
(* The label-value scanner on its own: the parser stands in                *)
(* start_label_value on the opening quote of a{k="<raw>"} 1 and            *)
(* read_token_as_label_value is called once.                               *)

\* bytes of the raw label values
RawBytes == {"x", "n", BS, DQ, LF}

MaxRaw == 4

RawValues == UNION {[1..k -> RawBytes] : k \in 0..MaxRaw}

ScanPrefix == <<"a", "{", "k", "=", DQ>>

ScanLine(raw) == ScanPrefix \o raw \o <<DQ, "}", SP, "1", LF>>

InitScan ==
    /\ \E raw \in RawValues : doc = <<ScanLine(raw)>>
    /\ input = Flatten(doc)
    /\ cur_byte = DQ
    /\ cur_labels = EmptyMap
    /\ mf_by_name = MapInsert(EmptyMap, nA, 2)
    /\ mfs = <<NewMetricFamily, [NewMetricFamily EXCEPT !.name = nA]>>
    /\ cur_mf = 2
    /\ cur_token = <<"k">>
    /\ cur_bucket = Zero
    /\ cur_quantile = Zero
    /\ parser_status = None
    /\ line_count = 1
    /\ reading_bytes = Len(ScanPrefix)
    /\ cur_metric = <<[NewMetric EXCEPT !.label = <<Lbl(<<"k">>, <<>>)>>]>>
    /\ error = NoError
    /\ next_fn = "start_label_value"
    /\ pc = "scan"
    /\ last_fn = "start_label_name"
    /\ result = None

ScanLabelValue ==
    /\ pc = "scan"
    /\ LET r == read_token_as_label_value(Self)
       IN  /\ cur_byte' = r.cur_byte
           /\ cur_token' = r.cur_token
           /\ reading_bytes' = r.reading_bytes
           /\ error' = r.error
           /\ next_fn' = r.next_fn
    /\ pc' = "scanned"
    /\ UNCHANGED <<doc, input, cur_labels, mf_by_name, cur_mf, cur_bucket,
                   cur_quantile, parser_status, line_count, cur_metric, mfs,
                   last_fn, result>>

NextScan == ScanLabelValue

SpecScan == InitScan /\ [][NextScan]_vars

-----------------------------------------------------------------------------
(* Observations on the registry *)

\* the family registered under a name
Family(name) == mfs[mf_by_name[name]]

Registered(name) == name \in DOMAIN mf_by_name

TypeOK ==
    /\ pc \in {"new", "loop", "done", "panic"}
    /\ cur_mf \in 1..Len(mfs)
    /\ \A n \in DOMAIN mf_by_name : mf_by_name[n] \in 1..Len(mfs)
    /\ reading_bytes \in 0..Len(input)
    /\ Len(cur_metric) <= 1

Done == pc = "done"

Fin(n) == [cls |-> "fin", neg |-> FALSE, int |-> n, frac |-> <<>>]

RECURSIVE SumMetrics(_)
SumMetrics(fs) == IF fs = <<>> THEN 0 ELSE Len(Head(fs).metric) + SumMetrics(Tail(fs))

\* the number of metrics appended so far, over all family records
TotalMetrics == SumMetrics(mfs)

\* sample lines and other lines that the parser takes without error
CleanSamples ==
    { SampleLine(nA, <<Lbl(<<"p">>, <<"v">>)>>, <<"1">>),
      SampleLine(nA, <<>>, <<"2">>),
      SampleLine(nB, <<>>, <<"3">>),
      SampleLine(nB, <<Lbl(<<"k">>, <<"v">>)>>, <<"2">>),
      SampleLine(nA, <<Lbl(<<"k">>, <<"v">>), Lbl(<<"j">>, <<"w">>)>>, <<"1">>),
      SampleLine(nA, <<Lbl(<<"k">>, <<"x", BS, DQ, BS, "n", BS, BS>>)>>, <<"1">>) }

CleanLines ==
    CleanSamples
    \cup {TypeLine(nA, tok_gauge), TypeLine(nA, tok_counter), <<LF>>,
          <<"#", SP, "c", SP, "x", LF>>}

\* line i is in Bad and every line before it is clean
FirstBad(i, Bad) ==
    /\ i \in 1..Len(doc)
    /\ doc[i] \in Bad
    /\ \A j \in 1..(i - 1) : doc[j] \in CleanLines

SamplesBefore(i) == Cardinality({j \in 1..(i - 1) : doc[j] \in CleanSamples})

-----------------------------------------------------------------------------
(* Claims *)

\* the samples of counter family "a" that the documents use, with their values
CounterSamples ==
    { [labels |-> <<Lbl(<<"p">>, <<"v">>)>>, value |-> <<"1">>, val |-> Fin(1)],
      [labels |-> <<>>, value |-> <<"2">>, val |-> Fin(2)] }

CounterDoc(F, h, S) ==
    <<HelpLine(F, h), TypeLine(F, tok_counter)>>
    \o [i \in 1..Len(S) |-> SampleLine(F, S[i].labels, S[i].value)]

CounterMetric(x) == [NewMetric EXCEPT !.label = x.labels, !.counter = <<x.val>>]

\* C1: after a document of a HELP line, a TYPE line and N sample lines of one
\* counter family F, the registry entry F has the HELP text, type Counter and
\* exactly the N metrics of the sample lines, in input order.
C1_CounterFamilyInRegistry ==
    \A h \in {<<"t">>, <<"u">>} : \A S \in SeqsUpTo(CounterSamples, MaxLines - 2) :
        (Done /\ doc = CounterDoc(nA, h, S)) =>
            /\ Registered(nA)
            /\ Family(nA).help = h
            /\ get_field_type(Family(nA)) = "COUNTER"
            /\ Family(nA).metric = [i \in 1..Len(S) |-> CounterMetric(S[i])]

\* the labels that identify a metric of a summary or histogram family
IdentityLabels(m) ==
    {m.label[i] : i \in {k \in 1..Len(m.label) : m.label[k].name \notin {tok_le, tok_quantile}}}

\* C2: in a Summary or Histogram family, the sample lines of one label set
\* (leaving out quantile/le) all contribute to one Metric record: the family
\* never holds two Metric records of the same label set.
C2_OneMetricPerLabelSet ==
    \A k \in 1..Len(mfs) :
        get_field_type(mfs[k]) \in {"SUMMARY", "HISTOGRAM"} =>
            \A i, j \in 1..Len(mfs[k].metric) :
                i # j => IdentityLabels(mfs[k].metric[i]) # IdentityLabels(mfs[k].metric[j])

\* C3: a sample named base_count, base_sum or base_bucket goes to the family
\* base whenever the registry holds base with type Summary or Histogram,
\* whichever family was current; no family is created under the suffixed name.
C3_SuffixRoutedToBase ==
    [][(Call("reading_metric_name") /\ next_fn' = "reading_labels") =>
        LET name == cur_token'
            base == summary_metric_name(name)
        IN  (/\ name # base
             /\ Registered(base)
             /\ get_field_type(Family(base)) \in {"SUMMARY", "HISTOGRAM"})
            => (cur_mf' = mf_by_name[base] /\ mf_by_name' = mf_by_name)]_vars

HasReservedLabel(m) == \E i \in 1..Len(m.label) : m.label[i].name = tok_reserved

\* C4: a sample line with a label named __name__ stops the parse with the
\* reserved-label error, which is still in the error slot when the driver
\* stops; no metric with a label named __name__ is appended to a family.
C4_ReservedLabelRejected ==
    /\ (Done /\ \E i \in 1..Len(doc) : FirstBad(i, {ReservedLine})) => error = ErrReserved
    /\ \A k \in 1..Len(mfs) : \A i \in 1..Len(mfs[k].metric) :
           ~HasReservedLabel(mfs[k].metric[i])

HelpLines(F) == {HelpLine(F, <<"t">>), HelpLine(F, <<"u">>)}

\* C5: a second HELP line with non-empty text for a family that already got
\* non-empty help stops the parse with the duplicate-HELP error, whatever
\* lines lie between the two HELP lines.
C5_SecondHelpRejected ==
    (/\ Done
     /\ \A k \in 1..Len(doc) : doc[k] \in PalCounter
     /\ \E i, j \in 1..Len(doc) : i < j /\ doc[i] \in HelpLines(nA) /\ doc[j] \in HelpLines(nA))
    => error = ErrSecondHelp

\* C6: a raw newline inside a quoted label value stops the parse with the
\* unescaped-new-line error; the scan does not go past the newline and the
\* line's sample is not appended.
C6_RawNewlineRejected ==
    \A i \in 1..Len(doc) :
        (Done /\ FirstBad(i, {RawNewlineLine})) =>
            /\ error = ErrUnescapedNewline
            /\ TotalMetrics = SamplesBefore(i)

\* C7: once a parse error is in the error slot, no further byte is read, the
\* registry and the in-progress metric are not changed, and the error stays
\* (it is the error held when the driver stops).
C7_FirstErrorIsFinal ==
    [][(error \in ParseErrors) =>
        (/\ reading_bytes' = reading_bytes
         /\ mfs' = mfs
         /\ mf_by_name' = mf_by_name
         /\ cur_metric' = cur_metric
         /\ error' = error)]_vars

\* C8: text_to_metric_families returns an error whenever the driver stopped
\* on a parse error, and success only when the whole input was consumed
\* without a parse error.
C8_ResultTellsFailure ==
    /\ (Done /\ error \in ParseErrors) => result = "Err"
    /\ (Done /\ result = "Ok") => (reading_bytes = Len(input) /\ error \notin ParseErrors)

\* C9: end of input met while start-of-line is reading is terminal and not an
\* error: the driver stops with an empty error slot.
C9_EofInStartOfLineIsClean ==
    (Done /\ last_fn = "start_of_line") => error = NoError

\* C10: inside a quoted label value, a backslash followed by a byte other
\* than '"', '\' or 'n' stops the parse with the invalid-escape error:
\* start-label-value sets the next state to none, the error stays in the
\* error slot, and the line's sample is not appended to any family.
C10_InvalidEscapeStops ==
    /\ error = ErrInvalidEscape => (last_fn = "start_label_value" /\ next_fn = None)
    /\ \A i \in 1..Len(doc) :
           FirstBad(i, BadEscapeLines) =>
               /\ TotalMetrics <= SamplesBefore(i)
               /\ Done => /\ error = ErrInvalidEscape
                          /\ last_fn = "start_label_value"
                          /\ TotalMetrics = SamplesBefore(i)
                          /\ line_count >= i
    /\ pc = "panic" => \A i \in 1..Len(doc) : ~FirstBad(i, BadEscapeLines)

\* a document with a sample line, then a line with an invalid escape, parsed
C10_Witness ==
    /\ Done
    /\ Len(doc) >= 2
    /\ doc[1] \in CleanSamples
    /\ FirstBad(2, BadEscapeLines)
    /\ error = ErrInvalidEscape
    /\ TotalMetrics = 1

\* the raw value between the quotes of the scanned line
ScanRaw == SubSeq(doc[1], Len(ScanPrefix) + 1, Len(doc[1]) - 5)

\* raw has no newline, no bare quote, and only the escapes \" \\ \n
RECURSIVE WellEscaped(_)
WellEscaped(raw) ==
    IF raw = <<>> THEN TRUE
    ELSE IF Head(raw) = BS
    THEN Len(raw) >= 2 /\ raw[2] \in {DQ, BS, "n"} /\ WellEscaped(SubSeq(raw, 3, Len(raw)))
    ELSE Head(raw) \notin {DQ, LF} /\ WellEscaped(Tail(raw))

\* the reference decoding of a well-escaped raw value
RECURSIVE RefDecode(_)
RefDecode(raw) ==
    IF raw = <<>> THEN <<>>
    ELSE IF Head(raw) = BS
    THEN <<IF raw[2] = "n" THEN LF ELSE raw[2]>> \o RefDecode(SubSeq(raw, 3, Len(raw)))
    ELSE <<Head(raw)>> \o RefDecode(Tail(raw))

\* C11: for a quoted label value without raw newline and with only the
\* escapes \" \\ \n, the scan yields the reference decoding, ends at the
\* first unescaped quote and leaves the current byte on that closing quote.
C11_LabelValueDecoded ==
    (pc = "scanned" /\ WellEscaped(ScanRaw)) =>
        /\ error = NoError
        /\ cur_token = RefDecode(ScanRaw)
        /\ cur_byte = DQ
        /\ reading_bytes = Len(ScanPrefix) + Len(ScanRaw) + 1
        /\ input[reading_bytes] = DQ

\* a value with the escapes \" and \n has been scanned
C11_Witness ==
    /\ pc = "scanned"
    /\ ScanRaw = <<BS, DQ, BS, "n">>
    /\ cur_token = <<DQ, LF>>
    /\ cur_byte = DQ

\* the position of the first newline at or after position p of the input
NextLF(p) == CHOOSE i \in p..Len(input) :
                 input[i] = LF /\ \A j \in p..(i - 1) : input[j] # LF

HasLF(p) == \E i \in p..Len(input) : input[i] = LF

\* the payload of a directive: from the current byte up to the newline
Payload == SubSeq(input, reading_bytes, NextLF(reading_bytes) - 1)

\* HELP text whose backslashes all start one of the sequences \\ and \n
RECURSIVE WellEscapedHelp(_)
WellEscapedHelp(raw) ==
    IF raw = <<>> THEN TRUE
    ELSE IF Head(raw) = BS
    THEN Len(raw) >= 2 /\ raw[2] \in {BS, "n"} /\ WellEscapedHelp(SubSeq(raw, 3, Len(raw)))
    ELSE WellEscapedHelp(Tail(raw))

RECURSIVE RefDecodeHelp(_)
RefDecodeHelp(raw) ==
    IF raw = <<>> THEN <<>>
    ELSE IF Head(raw) = BS
    THEN <<IF raw[2] = "n" THEN LF ELSE raw[2]>> \o RefDecodeHelp(SubSeq(raw, 3, Len(raw)))
    ELSE <<Head(raw)>> \o RefDecodeHelp(Tail(raw))

\* C12: in HELP text a backslash starts a sequence of exactly two bytes (\\ is
\* a backslash, \n is LF, anything else is a parse error); the bytes after it
\* are literal again and the scan ends at the next newline, so the following
\* lines are parsed as lines of their own.
C12_HelpEscapes ==
    [][(Call("reading_help") /\ HasLF(reading_bytes)) =>
        IF WellEscapedHelp(Payload)
        THEN /\ cur_token' = RefDecodeHelp(Payload)
             /\ reading_bytes' = NextLF(reading_bytes)
             /\ next_fn' = "start_of_line"
        ELSE error' \in ParseErrors /\ next_fn' = None]_vars


\* the type a TYPE payload stands for
TypeOfToken(t) ==
    IF t = tok_counter THEN "COUNTER"
    ELSE IF t = tok_gauge THEN "GAUGE"
    ELSE IF t = tok_summary THEN "SUMMARY"
    ELSE IF t = tok_histogram THEN "HISTOGRAM"
    ELSE "UNTYPED"

\* C13: reading-type maps counter, gauge, summary and histogram to their
\* types and every other payload token to Untyped; in all cases it applies
\* the type to the family and returns to start-of-line.
C13_TypeTokens ==
    [][(Call("reading_type") /\ HasLF(reading_bytes)) =>
        /\ pc' = "loop"
        /\ next_fn' = "start_of_line"
        /\ mfs'[cur_mf'].field_type = TypeOfToken(Payload)]_vars


\* C14: when the value token is followed by a blank or tab, start-timestamp
\* skips blanks, reads the timestamp token, requires newline or end of input
\* and hands control back to start-of-line, so the following lines are parsed.
C14_TimestampThenNextLine ==
    [][(Call("start_timestamp") /\ HasLF(reading_bytes)) =>
        /\ pc' = "loop"
        /\ next_fn' = "start_of_line"
        /\ reading_bytes' = NextLF(reading_bytes)]_vars


\* a document of whitespace variants: an optional TYPE line, then sample lines
WsDoc ==
    /\ Len(doc) >= 1
    /\ doc[1] \in TypeVariants \cup SampleVariants
    /\ \A i \in 2..Len(doc) : doc[i] \in SampleVariants

WsTyped == doc[1] \in TypeVariants

WsMetric ==
    IF WsTyped THEN [NewMetric EXCEPT !.label = WsLabels, !.gauge = <<Fin(1)>>]
    ELSE [NewMetric EXCEPT !.label = WsLabels, !.counter = <<Fin(1)>>]

WsSamples == Len(doc) - (IF WsTyped THEN 1 ELSE 0)

\* C15: blanks and tabs put between or taken from between the tokens of a
\* line do not change the outcome: every document of whitespace variants of
\* the same lines ends like the document of the plain lines, with the same
\* registry content and the same success or failure (also with blanks after
\* the value, between name and '{', around '=' and ',', inside '{ }' and
\* after a directive's metric name).
C15_WhitespaceInsensitive ==
    (pc \in {"done", "panic"} /\ WsDoc) =>
        /\ pc = "done"
        /\ error = IoEof
        /\ DOMAIN mf_by_name = {nA}
        /\ get_field_type(Family(nA)) = (IF WsTyped THEN "GAUGE" ELSE "COUNTER")
        /\ Family(nA).metric = [i \in 1..WsSamples |-> WsMetric]

\* the same, leaving out the variant with a blank after the value
C15_ExceptAfterValue ==
    (\A i \in 1..Len(doc) : doc[i] # WsAfterValue) => C15_WhitespaceInsensitive


RECURSIVE CountLF(_)
\* number of newline bytes among the first p bytes of the input
CountLF(p) ==
    IF p <= 0 THEN 0
    ELSE CountLF(p - 1) + (IF input[p] = LF THEN 1 ELSE 0)

\* 1-based index of the input line that holds byte p
LineOf(p) == 1 + CountLF(p - 1)

\* C16: whenever the parse stops on a parse error, line_count equals the
\* 1-based index of the input line that contains the byte which caused the
\* error (the last byte read).
C16_LineCountAccurate ==
    (pc = "done" /\ error \in ParseErrors /\ reading_bytes >= 1) =>
        line_count = LineOf(reading_bytes)

\* the same for documents without a raw newline in a label value
C16_WithoutRawNewline ==
    (\A i \in 1..Len(doc) : doc[i] # RawNewlineLine) => C16_LineCountAccurate


\* a document of lines that name families with a colon, one line per family
ColonDoc ==
    /\ Len(doc) >= 1
    /\ \A i \in 1..Len(doc) : doc[i] \in UNION {ColonLines(n) : n \in ColonNames}
    /\ \A i, j \in 1..Len(doc) :
           (i # j) => \A n \in ColonNames : ~(doc[i] \in ColonLines(n) /\ doc[j] \in ColonLines(n))

\* C17: the metric-name scan takes the longest prefix of [a-zA-Z_:][a-zA-Z0-9_:]*:
\* a ':' is taken as first byte and as any later byte of a metric name, in
\* sample lines and in HELP and TYPE lines alike, and the family is registered
\* under the whole name.
C17_ColonInMetricName ==
    (pc \in {"done", "panic"} /\ ColonDoc) =>
        /\ pc = "done"
        /\ error = IoEof
        /\ \A n \in ColonNames :
               (\E i \in 1..Len(doc) : doc[i] \in ColonLines(n)) =>
                   (Registered(n) /\ Family(n).name = n)

\* the same for names whose only colon is the first byte
C17_LeadingColonOnly ==
    (\A i \in 1..Len(doc) : doc[i] \notin ColonLines(nAB)) => C17_ColonInMetricName


LabelNames(m) == [i \in 1..Len(m.label) |-> m.label[i].name]

HasLabel(m, name) == \E i \in 1..Len(m.label) : m.label[i].name = name

\* C18: in every reachable state no metric appended to a Summary family has a
\* label named quantile in its labels and no metric appended to a Histogram
\* family has a label named le: these labels live only in the cur_quantile
\* and cur_bucket scratch.
C18_SpecialLabelsNotStored ==
    \A k \in 1..Len(mfs) : \A i \in 1..Len(mfs[k].metric) :
        /\ get_field_type(mfs[k]) = "SUMMARY" => ~HasLabel(mfs[k].metric[i], tok_quantile)
        /\ get_field_type(mfs[k]) = "HISTOGRAM" => ~HasLabel(mfs[k].metric[i], tok_le)


\* C19: in every reachable state the label names of each metric appended to
\* a family are pairwise distinct: a sample line that repeats a label name
\* never yields a metric with two labels of the same name.
C19_LabelNamesDistinct ==
    \A k \in 1..Len(mfs) : \A i \in 1..Len(mfs[k].metric) :
        \A a, b \in 1..Len(mfs[k].metric[i].label) :
            (a # b) => LabelNames(mfs[k].metric[i])[a] # LabelNames(mfs[k].metric[i])[b]


DeclaredTypes == {tok_counter, tok_gauge}

\* two TYPE lines of family a that declare different types
TypeConflictDoc ==
    /\ Len(doc) >= 2
    /\ \E t1, t2 \in DeclaredTypes :
           t1 # t2 /\ doc[1] = TypeLine(nA, t1) /\ doc[2] = TypeLine(nA, t2)

FirstDeclared == CHOOSE t \in DeclaredTypes : doc[1] = TypeLine(nA, t)

\* C20: a TYPE line that declares a different type for a family whose type
\* an earlier TYPE line declared stops the parse with an error, and the
\* family keeps the type declared first.
C20_TypeConflictIsError ==
    (pc \in {"done", "panic"} /\ TypeConflictDoc) =>
        /\ pc = "done"
        /\ error \in ParseErrors
        /\ line_count = 2
        /\ Registered(nA)
        /\ Family(nA).field_type = TypeOfToken(FirstDeclared)


\* the driver has a step to take: the entry, a call of next_fn or the break
Running == pc \in {"new", "loop"}

\* C21: for every finite input the driver loop, started in start-of-line,
\* reaches a terminal state (next state none): a run never ends anywhere
\* else, that is, whenever the driver has no step left, the loop was broken
\* with next_fn = None.
C21_DriverReachesTerminal == Running \/ (pc = "done" /\ next_fn = None)

\* each state function consumes at least one input byte, hands over to a
\* state that does, stops or panics: no run goes on without input progress
C21_StepsMakeProgress ==
    [][(pc = "loop" /\ next_fn # None) =>
        \/ reading_bytes' > reading_bytes
        \/ next_fn' = None
        \/ pc' = "panic"
        \/ (next_fn = "reading_labels" /\ next_fn' \in {"reading_value", "start_label_name"})]_vars

\* the only panics are the timestamp after a value and the unknown TYPE token
C21_NoPanicWithoutTodo ==
    (pc = "panic") => last_fn \in {"start_timestamp", "reading_type"}

\* the document of a histogram family: HELP, TYPE, a _bucket line, _sum, _count
BasicDoc ==
    /\ Len(doc) >= 3
    /\ doc[1] \in {HistHeader(<<"t">>), HistHeader(<<"u">>)}
    /\ doc[2] \in {HistBucket(<<"1">>), HistBucket(<<"2">>)}
    /\ doc[3] = HistSumCount

C23_NoSilentStop ==
    (pc = "done" /\ error # IoEof) => error \in ParseErrors


\* the counter sample lines of families a and b that the documents use
PlainSamples ==
    { [name |-> nA, labels |-> <<Lbl(<<"p">>, <<"v">>)>>, value |-> <<"1">>, val |-> Fin(1)],
      [name |-> nA, labels |-> <<>>, value |-> <<"2">>, val |-> Fin(2)],
      [name |-> nB, labels |-> <<>>, value |-> <<"3">>, val |-> Fin(3)] }

PlainLine(r) == SampleLine(r.name, r.labels, r.value)

LineRec(line) == CHOOSE r \in PlainSamples : PlainLine(r) = line

PlainDoc ==
    /\ Len(doc) >= 1
    /\ \A i \in 1..Len(doc) : doc[i] \in {PlainLine(r) : r \in PlainSamples}

\* the metrics of the sample lines named n, in input order
MetricsOf(n) ==
    LET idx == SelectSeq([i \in 1..Len(doc) |-> i], LAMBDA i : LineRec(doc[i]).name = n)
    IN  [k \in 1..Len(idx) |-> CounterMetric(LineRec(doc[idx[k]]))]

\* C24: for any order of counter sample lines over several families, each
\* sample with metric name n is appended to the registry family named n,
\* also when n was registered earlier and another family was current in
\* between (lines for a, then b, then a again).
C24_SampleGoesToItsFamily ==
    (pc = "done" /\ PlainDoc) =>
        \A n \in {nA, nB} :
            (MetricsOf(n) # <<>>) => (Registered(n) /\ Family(n).metric = MetricsOf(n))

\* the same for documents that never come back to an earlier family
C24_WithoutReturn ==
    (\A i, j, k \in 1..Len(doc) :
        (i < j /\ j < k /\ PlainDoc /\ LineRec(doc[i]).name = LineRec(doc[k]).name)
            => LineRec(doc[j]).name = LineRec(doc[i]).name)
    => C24_SampleGoesToItsFamily


KnownTypes == {tok_counter, tok_gauge, tok_summary, tok_histogram}

\* C25: a TYPE line naming family F (the token read by start-comment) applies
\* the declared type to the registry family F and changes no other family
\* record, also when F is in the registry already and is not the current
\* family at that point.
C25_TypeAppliedToNamedFamily ==
    [][(Call("reading_type") /\ HasLF(reading_bytes) /\ Payload \in KnownTypes) =>
        /\ Registered(cur_token)
        /\ Len(mfs') = Len(mfs)
        /\ mfs'[mf_by_name[cur_token]].field_type = TypeOfToken(Payload)
        /\ \A k \in 1..Len(mfs) : (k # mf_by_name[cur_token]) => (mfs'[k] = mfs[k])]_vars

\* the same for TYPE lines of the family that is current
C25_WhenCurrent ==
    [][(Call("reading_type") /\ HasLF(reading_bytes) /\ Payload \in KnownTypes
            /\ mfs[cur_mf].name = cur_token) =>
        /\ Registered(cur_token)
        /\ mfs'[mf_by_name[cur_token]].field_type = TypeOfToken(Payload)
        /\ \A k \in 1..Len(mfs) : (k # mf_by_name[cur_token]) => (mfs'[k] = mfs[k])]_vars


\* a TYPE line of family a, then sample lines of a only
HintDoc ==
    /\ Len(doc) >= 1
    /\ doc[1] \in {TypeLine(nA, tok_gauge), TypeLine(nA, tok_counter)}
    /\ \A i \in 2..Len(doc) : doc[i] \in PalHint \ {TypeLine(nA, tok_gauge), TypeLine(nA, tok_counter)}

HintDeclared == CHOOSE t \in DeclaredTypes : doc[1] = TypeLine(nA, t)

\* C26: a label named le or quantile on a sample line sets the family's type
\* only when the family has no TYPE hint: a family whose type was declared
\* by a TYPE line keeps the declared type after any sequence of sample lines.
C26_DeclaredTypeKept ==
    (HintDoc /\ line_count >= 2) =>
        /\ Registered(nA)
        /\ Family(nA).field_type = TypeOfToken(HintDeclared)

\* the same for sample lines without the labels le and quantile
C26_WithoutSpecialLabels ==
    (\A i \in 1..Len(doc) : doc[i] \in {TypeLine(nA, tok_gauge), TypeLine(nA, tok_counter),
                                         SampleLine(nA, <<>>, <<"2">>)})
    => C26_DeclaredTypeKept


\* C27: every HELP or TYPE line that names a metric creates (or finds) that
\* family in the registry, also when the line ends right after the metric
\* name: once the parser is past such a line, the registry has a family of
\* that name.
C27_DirectiveCreatesFamily ==
    \A i \in 1..Len(doc) :
        (doc[i] \in BareLines(nA) /\ line_count > i /\ \A j \in 1..Len(doc) : doc[j] \in PalBare)
            => Registered(nA)

\* the same for lines with a blank, tab or payload after the metric name
C27_WithPayload ==
    (\A i \in 1..Len(doc) :
        doc[i] \notin { <<"#", SP>> \o tok_TYPE \o <<SP>> \o nA \o <<LF>>,
                        <<"#", SP>> \o tok_HELP \o <<SP>> \o nA \o <<LF>> })
    => C27_DirectiveCreatesFamily


\* the first position at or after p of the input that holds no blank or tab
SkipBlanks(p) == CHOOSE i \in p..Len(input) :
                     ~is_blank_or_tab(input[i]) /\ \A j \in p..(i - 1) : is_blank_or_tab(input[j])

\* the first position at or after p that holds a blank, a tab or a newline
TokenEnd(p) == CHOOSE i \in p..Len(input) :
                   /\ is_blank_or_tab(input[i]) \/ input[i] = LF
                   /\ \A j \in p..(i - 1) : ~(is_blank_or_tab(input[j]) \/ input[j] = LF)

\* the first token of the comment that starts at the current byte '#'
CommentToken ==
    SubSeq(input, SkipBlanks(reading_bytes + 1), TokenEnd(SkipBlanks(reading_bytes + 1)) - 1)

C29_InvalidMetricNameStops ==
    [][/\ Call("start_of_line") => UNCHANGED <<mfs, mf_by_name, cur_mf>>
       /\ (Call("reading_metric_name") /\ ~is_valid_metric_name_start(cur_byte)) =>
            /\ pc' = "loop"
            /\ next_fn' = None
            /\ error' = ErrInvalidMetricName
            /\ UNCHANGED <<mfs, mf_by_name, cur_mf, reading_bytes, line_count>>]_vars

C29_Witness ==
    /\ pc = "done"
    /\ last_fn = "reading_metric_name"
    /\ error = ErrInvalidMetricName
    /\ doc = <<SampleLine(nA, <<Lbl(<<"p">>, <<"v">>)>>, <<"1">>),
               <<SP, TAB, "{", "k", "}", SP, "1", LF>>>>
    /\ line_count = 2
    /\ cur_byte = "{"
    /\ DOMAIN mf_by_name = {nA}
    /\ TotalMetrics = 1


\* the first position at or after p that holds no label-name byte
NameEnd(p) == CHOOSE i \in p..Len(input) :
                  /\ ~is_valid_label_name_continuation(input[i])
                  /\ \A j \in p..(i - 1) : is_valid_label_name_continuation(input[j])

\* where the label name after the current byte starts, and the byte that
\* follows the name and its blanks
LabelNameStart == SkipBlanks(reading_bytes + 1)

AfterLabelName == SkipBlanks(NameEnd(LabelNameStart))

\* C30: in start-label-name, when the byte after the label name (after
\* optional blanks and tabs) is not '=', the parse stops with the error
\* "expect '=' after label name", start-label-value is not entered and the
\* line's metric is appended to no family.
C30_MissingEqStops ==
    [][(/\ Call("start_label_name")
        /\ HasLF(reading_bytes + 1)
        /\ is_valid_label_name_start(input[LabelNameStart])
        /\ input[AfterLabelName] # "=") =>
            /\ pc' = "loop"
            /\ next_fn' = None
            /\ error' = ErrExpectEq
            /\ reading_bytes' = AfterLabelName
            /\ Len(mfs') = Len(mfs)
            /\ \A k \in 1..Len(mfs) : mfs'[k].metric = mfs[k].metric]_vars

C30_Witness ==
    /\ pc = "done"
    /\ last_fn = "start_label_name"
    /\ error = ErrExpectEq
    /\ doc = <<SampleLine(nB, <<>>, <<"3">>),
               <<"a", "{", "j", "=", DQ, "w", DQ, ",", SP, "k", SP, ":", DQ, "v", DQ, "}",
                 SP, "1", LF>>>>
    /\ cur_byte = ":"
    /\ Registered(nA)
    /\ TotalMetrics = 1


\* C31: a plain sample of a Histogram family appends a bucket only when the
\* line carried an le label, and a plain sample of a Summary family appends a
\* quantile only when the line carried a quantile label: a metric without
\* that label has no bucket and no quantile, and no bucket or quantile holds
\* the NaN reset value of the scratch.
C31_BucketNeedsLabel ==
    \A k \in 1..Len(mfs) : \A i \in 1..Len(mfs[k].metric) :
        LET m == mfs[k].metric[i]
        IN  /\ (m.histogram # <<>>) =>
                /\ (m.histogram[1].bucket # <<>>) => HasLabel(m, tok_le)
                /\ \A b \in 1..Len(m.histogram[1].bucket) :
                       m.histogram[1].bucket[b].upper_bound # NaN
            /\ (m.summary # <<>>) =>
                /\ (m.summary[1].quantile # <<>>) => HasLabel(m, tok_quantile)
                /\ \A q \in 1..Len(m.summary[1].quantile) :
                       m.summary[1].quantile[q].quantile # NaN


\* C32: with escape decoding off (the TYPE payload) a backslash is an
\* ordinary byte: the until-newline scan appends every byte before the
\* newline, backslashes included, so the token is the raw payload.
C32_TypePayloadIsRaw ==
    [][(Call("reading_type") /\ HasLF(reading_bytes)) =>
        /\ cur_token' = Payload
        /\ reading_bytes' = NextLF(reading_bytes)]_vars

\* the same for payloads without a backslash
C32_WithoutBackslash ==
    [][(Call("reading_type") /\ HasLF(reading_bytes)
            /\ \A i \in 1..Len(Payload) : Payload[i] # BS) =>
        /\ cur_token' = Payload
        /\ reading_bytes' = NextLF(reading_bytes)]_vars


\* the input ends with the value token that starts at the current byte
ValueRunsToEnd ==
    /\ reading_bytes >= 1
    /\ \A i \in reading_bytes..Len(input) : ~is_blank_or_tab(input[i]) /\ input[i] # LF

\* C33: if the input ends right after a sample's value token (no newline
\* after the value), that sample is appended to no family: reading-value
\* stops on the read error before it parses the value, and the registry
\* holds only the samples of the earlier lines.
C33_ValueAtEofNotAppended ==
    [][(Call("reading_value") /\ ValueRunsToEnd) =>
        /\ pc' = "loop"
        /\ next_fn' = None
        /\ error' = IoEof
        /\ reading_bytes' = Len(input)
        /\ UNCHANGED <<mfs, mf_by_name, cur_mf>>]_vars

C33_Witness ==
    /\ pc = "done"
    /\ last_fn = "reading_value"
    /\ error = IoEof
    /\ doc = <<SampleLine(nB, <<>>, <<"3">>), <<"a", "{", "k", "=", DQ, "v", DQ, "}", SP, "1">>>>
    /\ cur_token = <<"1">>
    /\ Registered(nA)
    /\ Family(nA).metric = <<>>
    /\ TotalMetrics = 1


\* each key of mf_by_name is a non-empty name, the name of its family record
RegistryConsistent ==
    \A n \in DOMAIN mf_by_name :
        /\ n # <<>>
        /\ mf_by_name[n] \in 1..Len(mfs)
        /\ mfs[mf_by_name[n]].name = n

\* no entry is removed or replaced, no family record is dropped or renamed
RegistryGrows ==
    /\ \A n \in DOMAIN mf_by_name :
           n \in DOMAIN mf_by_name' /\ mf_by_name'[n] = mf_by_name[n]
    /\ Len(mfs') >= Len(mfs)
    /\ \A k \in 1..Len(mfs) : mfs'[k].name = mfs[k].name

\* C34: in every reachable state the registry is consistent and only grows:
\* each key of mf_by_name is a non-empty name equal to the name field of the
\* family it maps to, an entry once inserted is never removed nor replaced by
\* another family record, and a family's name never changes after creation.
C34_RegistryConsistentAndGrows ==
    []RegistryConsistent /\ [][RegistryGrows]_vars

C34_Witness ==
    /\ pc = "done"
    /\ doc = <<HelpLine(nA, <<"t">>), SampleLine(nA, <<>>, <<"2">>), SampleLine(nB, <<>>, <<"3">>)>>
    /\ DOMAIN mf_by_name = {nA, nB}
    /\ mf_by_name[nA] = 2
    /\ Len(mfs) = 4
    /\ mfs[3].name = <<>>


\* the states that unwrap cur_metric
SampleStates == {"reading_labels", "start_label_name", "start_label_value", "reading_value"}

\* cur_metric is present whenever one of these states is about to run, and
\* none of them has panicked
MetricPresent ==
    /\ (pc = "loop" /\ next_fn \in SampleStates) => cur_metric # <<>>
    /\ (pc = "panic") => last_fn \notin SampleStates

\* reading-metric-name hands a metric without labels and values over
FreshMetric ==
    (Call("reading_metric_name") /\ next_fn' = "reading_labels") => cur_metric' = <<NewMetric>>

\* C35: whenever reading-labels, start-label-name, start-label-value or
\* reading-value runs, the in-progress metric cur_metric is present, so no
\* unwrap() of cur_metric in these states fails; each sample line starts
\* from a fresh metric with no labels carried over from the line before.
C35_MetricPresentAndFresh ==
    []MetricPresent /\ [][FreshMetric]_vars

C35_Witness ==
    /\ pc = "loop"
    /\ next_fn = "reading_labels"
    /\ line_count = 2
    /\ doc = <<SampleLine(nA, <<Lbl(<<"p">>, <<"v">>)>>, <<"1">>), SampleLine(nA, <<>>, <<"2">>)>>
    /\ cur_metric = <<NewMetric>>
    /\ Len(Family(nA).metric) = 1
    /\ Family(nA).metric[1].label = <<Lbl(<<"p">>, <<"v">>)>>

====
